---- MODULE Spec2Model ----
(***************************************************************************)
(* Shipping calendar (cmtkdot/icaltempo): the view computation of          *)
(* CalendarViews (month / week / day / agenda bucketing and its own month  *)
(* navigation), of CalendarContainer (navigation handlers, getViewRange)   *)
(* and of the Sidebar mini calendar.                                       *)
(*                                                                         *)
(* A JavaScript Date is modelled by its local time value in whole hours    *)
(* since 1970-01-01T00:00 local time (day * 24 + hour); the Invalid Date   *)
(* is NaN.  Calendar fields are computed from the time value and back the  *)
(* way the host's Date does (proleptic Gregorian day <-> civil date).      *)
(* offset is the host's timezone offset in hours east of UTC; only the     *)
(* reading of a date-only text depends on it.                              *)
(***************************************************************************)
EXTENDS Integers, Sequences, FiniteSets, TLC

VARIABLES now, offset, vEvents, vDate, activeView, view,
          events, currentDate, currentView, viewRange, sidebar,
          selectedEvent, editedEvent, isEditing, updated,
          isImporterOpen, importerTab, url, icalText, calls

vars == <<now, offset, vEvents, vDate, activeView, view,
          events, currentDate, currentView, viewRange, sidebar,
          selectedEvent, editedEvent, isEditing, updated,
          isImporterOpen, importerTab, url, icalText, calls>>

\* the detail dialog: the container's selectedEvent, the dialog's editedEvent
\* and isEditing, the event last handed to onEventUpdate
dialogVars == <<selectedEvent, editedEvent, isEditing, updated>>
\* the importer: the container's isImporterOpen, the importer's tab and
\* fields, the calls of the external onImport
importerVars == <<isImporterOpen, importerTab, url, icalText, calls>>
panelVars == <<dialogVars, importerVars>>

viewsVars == <<vEvents, vDate, activeView, view>>
containerVars == <<events, currentDate, currentView, viewRange, sidebar>>

(***************************************************************************)
(* Bounds of the model.                                                    *)
(***************************************************************************)
\* navigation is explored on the days FirstDay .. FirstDay + Horizon
Horizon == 100
\* longest event list handed to a component
MaxEvents == 2
\* longest list of events of one day handed to CalendarViews
MaxCellEvents == 5

(***************************************************************************)
(* Host Date: time value <-> calendar fields.                              *)
(***************************************************************************)
NaN == -1

isNaN(t) == t = NaN

DayOf(t) == t \div 24

getHours(t) == t % 24

\* Days since 1970-01-01 of a civil date, in steps: the year counted from
\* March (yy), the month counted from March (mp), the day of that year (doy)
\* and the 400-year era.
DaysFromEra(era, yy, doy) ==
    era * 146097
      + ((yy - era * 400) * 365 + (yy - era * 400) \div 4
           - (yy - era * 400) \div 100 + doy)
      - 719468

DaysFromYear(yy, mp, d) ==
    DaysFromEra(yy \div 400, yy, (153 * mp + 2) \div 5 + d - 1)

\* days since 1970-01-01 of the civil date y-m-d (m in 1..12, any d)
DaysFromCivil(y, m, d) ==
    DaysFromYear(IF m <= 2 THEN y - 1 ELSE y, (m + 9) % 12, d)

\* The civil date <<year, month 1..12, day of month>> of a day number, in
\* steps: day of era (doe), year of era (yoe), day of year (doy), month from
\* March (mp).
CivilOfMp(y, doy, mp) ==
    << IF mp < 10 THEN y ELSE y + 1,
       IF mp < 10 THEN mp + 3 ELSE mp - 9,
       doy - (153 * mp + 2) \div 5 + 1 >>

CivilOfDoy(y, doy) == CivilOfMp(y, doy, (5 * doy + 2) \div 153)

CivilOfYoe(doe, era, yoe) ==
    CivilOfDoy(yoe + era * 400, doe - (365 * yoe + yoe \div 4 - yoe \div 100))

CivilOfDoe(doe, era) ==
    CivilOfYoe(doe, era,
        (doe - doe \div 1460 + doe \div 36524 - doe \div 146096) \div 365)

CivilOfEra(zz, era) == CivilOfDoe(zz - era * 146097, era)

CivilFromDays(z) == CivilOfEra(z + 719468, (z + 719468) \div 146097)

\* the first day navigation is explored on
FirstDay == DaysFromCivil(2023, 12, 1)

\* the civil dates of the days the model computes with, tabulated
CivilTable ==
    [z \in (FirstDay - 100)..(FirstDay + Horizon + 100) |-> CivilFromDays(z)]

Civil(z) == CivilTable[z]

getFullYear(t) == Civil(DayOf(t))[1]

\* 0 = January
getMonth(t) == Civil(DayOf(t))[2] - 1

getDate(t) == Civil(DayOf(t))[3]

\* 0 = Sunday; 1970-01-01 was a Thursday
getDay(t) == (DayOf(t) + 4) % 7

\* Date(year, monthIndex, date, hours) with the host's overflow rule: a month
\* index outside 0..11 carries into the year, a day outside the month carries
\* into the neighbouring months
MakeTime(y, m0, d, h) ==
    (DaysFromCivil(y + (m0 \div 12), (m0 % 12) + 1, 1) + d - 1) * 24 + h

\* Date.prototype.setMonth(m0): same year, day of month and time of day
setMonth(t, m0) == MakeTime(getFullYear(t), m0, getDate(t), getHours(t))

\* Date.prototype.setHours(h)
setHours(t, h) == DayOf(t) * 24 + h

(***************************************************************************)
(* date-fns.                                                               *)
(***************************************************************************)
\* addDays: setDate(getDate() + amount)
addDays(t, amount) ==
    MakeTime(getFullYear(t), getMonth(t), getDate(t) + amount, getHours(t))

\* addMonths: the day of month is clamped to the length of the target month
addMonths(t, amount) ==
    LET endOfDesiredMonth ==
            MakeTime(getFullYear(t), getMonth(t) + amount + 1, 0, getHours(t))
        daysInMonth == getDate(endOfDesiredMonth)
    IN  IF getDate(t) >= daysInMonth
        THEN endOfDesiredMonth
        ELSE MakeTime(getFullYear(endOfDesiredMonth),
                      getMonth(endOfDesiredMonth), getDate(t), getHours(t))

\* a month taken for thirty days
subMonthsThirtyDays(t, amount) == addDays(t, 0 - 30 * amount)

subMonths(t, amount) == addMonths(t, 0 - amount)

startOfMonth(t) == MakeTime(getFullYear(t), getMonth(t), 1, 0)

\* the last hour of the last day of the month (23:59:59.999)
endOfMonth(t) == MakeTime(getFullYear(t), getMonth(t) + 1, 0, 23)

\* weekStartsOn = 0 (Sunday), the default
startOfWeek(t) ==
    MakeTime(getFullYear(t), getMonth(t), getDate(t) - getDay(t), 0)

endOfWeek(t) ==
    MakeTime(getFullYear(t), getMonth(t), getDate(t) + (6 - getDay(t)), 23)

isSameMonth(a, b) ==
    getFullYear(a) = getFullYear(b) /\ getMonth(a) = getMonth(b)

\* the start of every day from start's day while it is not after end
eachDayOfInterval(start, end) ==
    LET first == DayOf(start)
        n     == IF end < first * 24 THEN 0 ELSE (end - first * 24) \div 24 + 1
    IN  [i \in 1..n |-> (first + i - 1) * 24]

(***************************************************************************)
(* Text: a string is the sequence of its character codes.                  *)
(***************************************************************************)
Dash == 45
Colon == 58
LetterT == 84

Digit(n) == 48 + n

IsDigit(c) == c >= 48 /\ c <= 57

\* the text YYYY-MM-DD of a civil date
DateText(y, m, d) ==
    <<Digit(y \div 1000), Digit((y \div 100) % 10), Digit((y \div 10) % 10),
      Digit(y % 10), Dash, Digit(m \div 10), Digit(m % 10), Dash,
      Digit(d \div 10), Digit(d % 10)>>

\* the day keys of the days the model computes with, tabulated
KeyTable ==
    [z \in (FirstDay - 100)..(FirstDay + Horizon + 100) |->
        DateText(Civil(z)[1], Civil(z)[2], Civil(z)[3])]

\* format(date, "yyyy-MM-dd") of a valid date
format(t) == KeyTable[DayOf(t)]

\* format throws RangeError("Invalid time value") on the Invalid Date
formatThrows(t) == isNaN(t)

\* the text "YYYY-MM-DDTHH:00" of a local date-time
IsoText(y, m, d, h) ==
    DateText(y, m, d) \o
    <<LetterT, Digit(h \div 10), Digit(h % 10), Colon, Digit(0), Digit(0)>>

\* "not-a-date"
NotADate == <<110, 111, 116, Dash, 97, Dash, 100, 97, 116, 101>>

Num2(s, i) == (s[i] - 48) * 10 + (s[i + 1] - 48)

\* the instant of the local date-time y-m-d h:00, NaN if there is none
TimeOfFields(y, m, d, h) ==
    IF /\ m >= 1 /\ m <= 12 /\ d >= 1 /\ h <= 23
       /\ d <= getDate(MakeTime(y, m, 0, 0))
    THEN MakeTime(y, m - 1, d, h)
    ELSE NaN

\* Date.parse of a date-time text without offset (read as local time); any
\* other text gives NaN
DateParse(s) ==
    IF /\ Len(s) = 16
       /\ s[5] = Dash /\ s[8] = Dash /\ s[11] = LetterT /\ s[14] = Colon
       /\ \A i \in {1, 2, 3, 4, 6, 7, 9, 10, 12, 13, 15, 16} : IsDigit(s[i])
    THEN TimeOfFields(Num2(s, 1) * 100 + Num2(s, 3), Num2(s, 6), Num2(s, 9),
                      Num2(s, 12))
    ELSE NaN

(***************************************************************************)
(* Events.  A timestamp field holds a Date object, a string, or nothing.   *)
(***************************************************************************)
DateValue(t) == [kind |-> "Date", time |-> t, text |-> <<>>]

StringValue(s) == [kind |-> "string", time |-> NaN, text |-> s]

Undefined == [kind |-> "undefined", time |-> NaN, text |-> <<>>]

\* new Date(value) for a value that is not a Date
NewDate(value) ==
    IF value.kind = "string" THEN DateParse(value.text) ELSE NaN

\* value instanceof Date ? value : new Date(value)
toDate(value) ==
    IF value.kind = "Date" THEN value.time ELSE NewDate(value)

\* timestamps of the events handed to CalendarViews: two hours of 2024-03-15
\* (a Date and a string), the last hour of a leap day, an unparsable string
ViewsTimestamps ==
    { DateValue(MakeTime(2024, 2, 15, 9)),
      StringValue(IsoText(2024, 3, 15, 14)),
      DateValue(MakeTime(2024, 1, 29, 23)),
      StringValue(NotADate) }

\* timestamps of the events handed to CalendarContainer: a Date, a string and
\* an Invalid Date object
ContainerTimestamps ==
    { DateValue(MakeTime(2024, 0, 30, 9)),
      StringValue(IsoText(2024, 2, 29, 14)),
      DateValue(NaN) }

\* the lists of up to n timestamps of a pool
RECURSIVE Lists(_, _)
Lists(pool, n) ==
    IF n = 0 THEN {<<>>}
    ELSE LET shorter == Lists(pool, n - 1)
         IN  shorter \cup
             { Append(l, v) : l \in {x \in shorter : Len(x) = n - 1},
                              v \in pool }

\* CalendarViews' ShippingEvent: the timestamp is the field date; the id of an
\* event is its position in the list
ViewsEvents(l) ==
    [i \in 1..Len(l) |-> [id |-> i, date |-> l[i], startDate |-> Undefined]]

\* CalendarContainer's and Sidebar's ShippingEvent: the field is startDate
ContainerEvents(l) ==
    [i \in 1..Len(l) |-> [id |-> i, date |-> Undefined, startDate |-> l[i]]]

Days == FirstDay .. (FirstDay + Horizon)

InRange(t) == DayOf(t) \in Days

Views == {"month", "week", "day", "list"}

EmptyMap == [k \in {} |-> <<>>]

\* the event put at the front of its bucket (unshift)
PushFront(obj, key, event) ==
    IF key \in DOMAIN obj
    THEN [obj EXCEPT ![key] = <<event>> \o @]
    ELSE obj @@ (key :> <<event>>)

\* obj[key] = obj[key] || []; obj[key].push(event)
Push(obj, key, event) ==
    IF key \in DOMAIN obj
    THEN [obj EXCEPT ![key] = Append(@, event)]
    ELSE obj @@ (key :> <<event>>)

(***************************************************************************)
(* CalendarViews.                                                          *)
(***************************************************************************)
\* the three sample events shown when the events prop is empty
viewsSampleEvents(evs) ==
    IF Len(evs) > 0 THEN evs
    ELSE ViewsEvents(<<DateValue(now), DateValue(addDays(now, 1)),
                       DateValue(addDays(now, 0 - 1))>>)

displayEvents(evs) == IF Len(evs) > 0 THEN evs ELSE viewsSampleEvents(evs)

\* a < b in the order of Array.prototype.sort() on strings (code units)
StringLess(a, b) ==
    \/ \E i \in 1..Len(a) :
         /\ i <= Len(b)
         /\ \A j \in 1..(i - 1) : a[j] = b[j]
         /\ a[i] < b[i]
    \/ /\ Len(a) < Len(b)
       /\ \A j \in 1..Len(a) : a[j] = b[j]

\* a sort with the comparison reversed
RECURSIVE sortKeysDescending(_)
sortKeysDescending(keys) ==
    IF keys = {} THEN <<>>
    ELSE LET greatest == CHOOSE k \in keys :
                           \A o \in keys \ {k} : StringLess(o, k)
         IN  <<greatest>> \o sortKeysDescending(keys \ {greatest})

\* Object.keys(obj).sort()
RECURSIVE sortKeys(_)
sortKeys(keys) ==
    IF keys = {} THEN <<>>
    ELSE LET least == CHOOSE k \in keys :
                        \A o \in keys \ {k} : StringLess(k, o)
         IN  <<least>> \o sortKeys(keys \ {least})

\* the forEach of renderMonthView and renderListView: events with an invalid
\* date are warned about and skipped, the others are pushed on the bucket of
\* their day key
RECURSIVE groupByDate(_, _, _)
groupByDate(evs, i, acc) ==
    IF i > Len(evs) THEN acc
    ELSE LET eventDate == toDate(evs[i].date)
         IN  groupByDate(evs, i + 1,
               IF isNaN(eventDate)
               THEN [acc EXCEPT !.warned = Append(@, evs[i])]
               ELSE [acc EXCEPT
                       !.buckets = Push(@, format(eventDate), evs[i])])

\* the forEach of renderWeekView: the bucket is eventsByDateHour[dateKey][hour]
RECURSIVE groupByDateHour(_, _, _)
groupByDateHour(evs, i, acc) ==
    IF i > Len(evs) THEN acc
    ELSE LET eventDate == toDate(evs[i].date)
         IN  groupByDateHour(evs, i + 1,
               IF isNaN(eventDate)
               THEN [acc EXCEPT !.warned = Append(@, evs[i])]
               ELSE [acc EXCEPT
                       !.buckets = Push(@, <<format(eventDate),
                                             getHours(eventDate)>>, evs[i])])

\* the forEach of renderDayView over the events of the current day
RECURSIVE groupByHour(_, _, _)
groupByHour(evs, i, acc) ==
    IF i > Len(evs) THEN acc
    ELSE LET eventDate == toDate(evs[i].date)
         IN  groupByHour(evs, i + 1,
               IF isNaN(eventDate)
               THEN [acc EXCEPT !.warned = Append(@, evs[i])]
               ELSE [acc EXCEPT
                       !.buckets = Push(@, getHours(eventDate), evs[i])])

NoOutput == [days |-> <<>>, buckets |-> EmptyMap, warned |-> <<>>,
             sortedDates |-> <<>>, cells |-> <<>>, isCurrentMonth |-> <<>>,
             headers |-> <<>>]

\* Array.prototype.slice(0, end)
slice(array, end) ==
    SubSeq(array, 1, IF end < Len(array) THEN end ELSE Len(array))

\* a "+K more" line whenever the cell is full
monthCellFullShowsMore(dayEvents) ==
    [shown |-> slice(dayEvents, 3),
     hasMore |-> Len(dayEvents) >= 3,
     more |-> Len(dayEvents) - 3]

\* the events list of a day cell of the month grid: dayEvents.slice(0, 3),
\* and, if dayEvents.length > 3, the line "+{dayEvents.length - 3} more"
monthCell(dayEvents) ==
    [shown |-> slice(dayEvents, 3),
     hasMore |-> Len(dayEvents) > 3,
     more |-> Len(dayEvents) - 3]

\* days.map: the cell of every day, from eventsByDate[dateKey] || []
monthCells(days, eventsByDate) ==
    [i \in 1..Len(days) |->
        monthCell(IF format(days[i]) \in DOMAIN eventsByDate
                  THEN eventsByDate[format(days[i])]
                  ELSE <<>>)]

\* days.map: isCurrentMonth = isSameMonth(day, monthStart) of every cell
currentMonthFlags(days, monthStart) ==
    [i \in 1..Len(days) |-> isSameMonth(days[i], monthStart)]

\* the cells of the grid: their events and their isCurrentMonth
withMonthCells(out, monthStart) ==
    [out EXCEPT !.cells = monthCells(out.days, out.buckets),
                !.isCurrentMonth = currentMonthFlags(out.days, monthStart)]

\* a grid of always six weeks
renderMonthViewSixWeeks(date, evs) ==
    LET monthStart == startOfMonth(date)
        startDate  == startOfWeek(monthStart)
        endDate    == addDays(startDate, 41)
    IN  withMonthCells(
            [groupByDate(displayEvents(evs), 1, NoOutput)
               EXCEPT !.days = eachDayOfInterval(startDate, endDate)],
            monthStart)

renderMonthView(date, evs) ==
    LET monthStart == startOfMonth(date)
        monthEnd   == endOfMonth(monthStart)
        startDate  == startOfWeek(monthStart)
        endDate    == endOfWeek(monthEnd)
    IN  withMonthCells(
            [groupByDate(displayEvents(evs), 1, NoOutput)
               EXCEPT !.days = eachDayOfInterval(startDate, endDate)],
            monthStart)

renderWeekView(date, evs) ==
    LET weekStart == startOfWeek(date)
        weekEnd   == endOfWeek(weekStart)
    IN  [groupByDateHour(displayEvents(evs), 1, NoOutput)
           EXCEPT !.days = eachDayOfInterval(weekStart, weekEnd)]

renderDayView(date, evs) ==
    LET dateKey   == format(date)
        all       == displayEvents(evs)
        invalid(e) == isNaN(toDate(e.date))
        onDay(e)  == ~invalid(e) /\ format(toDate(e.date)) = dateKey
        dayEvents == SelectSeq(all, onDay)
        filtered  == [NoOutput EXCEPT !.warned = SelectSeq(all, invalid)]
    IN  groupByHour(dayEvents, 1, filtered)

\* Date.parse of a date-only text yyyy-MM-dd: midnight UTC of that day, which
\* the local clock of a host tz hours east of UTC shows tz hours later
DateParseDateOnly(s, tz) ==
    DaysFromCivil(Num2(s, 1) * 100 + Num2(s, 3), Num2(s, 6), Num2(s, 9)) * 24 + tz

\* date-fns isToday: the same local calendar day as the present instant
isToday(date) == DayOf(date) = DayOf(now)

\* the header of a group of the agenda: date = new Date(dateKey), shown as
\* "Today" or formatted, under the flag isToday(date)
groupHeader(date) == [date |-> date, isToday |-> isToday(date)]

\* sortedDates.map: the header of every group
listHeaders(sortedDates, tz) ==
    [i \in 1..Len(sortedDates) |->
        groupHeader(DateParseDateOnly(sortedDates[i], tz))]

withListHeaders(out, sortedDates) ==
    [out EXCEPT !.sortedDates = sortedDates,
                !.headers = listHeaders(sortedDates, offset)]

renderListView(evs) ==
    LET grouped == groupByDate(displayEvents(evs), 1, NoOutput)
    IN  withListHeaders(grouped, sortKeys(DOMAIN grouped.buckets))

\* the view dispatch of the component's return
renderCalendarViews(v, date, evs) ==
    CASE v = "month" -> renderMonthView(date, evs)
      [] v = "week"  -> renderWeekView(date, evs)
      [] v = "day"   -> renderDayView(date, evs)
      [] v = "list"  -> renderListView(evs)
      [] OTHER       -> NoOutput

\* the updater goToPreviousMonth hands to setCurrentDate
previousMonthDate(prevDate) == setMonth(prevDate, getMonth(prevDate) - 1)

\* the updater goToNextMonth hands to setCurrentDate
nextMonthDate(prevDate) == setMonth(prevDate, getMonth(prevDate) + 1)

goToPreviousMonth ==
    LET newDate == previousMonthDate(vDate)
    IN  /\ InRange(newDate)
        /\ vDate' = newDate
        /\ view' = renderCalendarViews(activeView, newDate, vEvents)
        /\ UNCHANGED <<now, offset, panelVars, vEvents, activeView, containerVars>>

goToNextMonth ==
    LET newDate == nextMonthDate(vDate)
    IN  /\ InRange(newDate)
        /\ vDate' = newDate
        /\ view' = renderCalendarViews(activeView, newDate, vEvents)
        /\ UNCHANGED <<now, offset, panelVars, vEvents, activeView, containerVars>>

goToToday ==
    /\ vDate' = now
    /\ view' = renderCalendarViews(activeView, now, vEvents)
    /\ UNCHANGED <<now, offset, panelVars, vEvents, activeView, containerVars>>

setActiveView(v) ==
    /\ activeView' = v
    /\ view' = renderCalendarViews(v, vDate, vEvents)
    /\ UNCHANGED <<now, offset, panelVars, vEvents, vDate, containerVars>>

\* the hours of the day whose cells are clicked
ClickHours == {0, 9, 23}

\* onDateSelect && onDateSelect(date): the callback is a prop, and
\* CalendarContainer passes none, so nothing is called; the component's own
\* currentDate is not set either
viewsOnDateSelect(date) == UNCHANGED vars

\* a click on a day cell of the month grid
monthCellClick ==
    /\ activeView = "month"
    /\ \E i \in 1..Len(view.days) : viewsOnDateSelect(view.days[i])

\* a click on an hour cell of a day column of the week view
weekCellClick ==
    /\ activeView = "week"
    /\ \E i \in 1..Len(view.days) : \E hour \in ClickHours :
           viewsOnDateSelect(setHours(view.days[i], hour))

\* the hour set on the state's own Date object instead of a copy
hourCellDatesInPlace(date, hour) ==
    [selected |-> setHours(date, hour), current |-> setHours(date, hour)]

\* const selectedDate = new Date(currentDate); selectedDate.setHours(hour):
\* the hour is set on a copy; selected is the copy, current the value the
\* state's Date object has afterwards
hourCellDates(date, hour) ==
    [selected |-> setHours(date, hour), current |-> date]

\* a click on an hour row of the day view; onDateSelect is undefined, so the
\* selected date goes nowhere and nothing is rendered again
dayCellClick ==
    /\ activeView = "day"
    /\ \E hour \in ClickHours :
           /\ vDate' = hourCellDates(vDate, hour).current
           /\ UNCHANGED <<now, offset, panelVars, vEvents, activeView, view, containerVars>>

(***************************************************************************)
(* Sidebar.                                                                *)
(***************************************************************************)
\* renderMiniCalendar: for every day of the month, the events whose startDate
\* formats to the day's key.  format is called on every event without a
\* validity check, so one Invalid Date makes the render throw.
renderMiniCalendar(date, evs) ==
    LET monthStart == startOfMonth(date)
        monthEnd   == endOfMonth(monthStart)
        days       == eachDayOfInterval(monthStart, monthEnd)
        eventDates == {toDate(evs[i].startDate) : i \in 1..Len(evs)}
        eventKeys  == {format(eventDate) : eventDate \in eventDates}
        \* dayEvents.length > 0
        hasEvents(day) == format(day) \in eventKeys
    IN  IF \E eventDate \in eventDates : formatThrows(eventDate)
        THEN [threw |-> TRUE, days |-> <<>>, marked |-> {}]
        ELSE [threw |-> FALSE, days |-> days,
              marked |-> {i \in 1..Len(days) : hasEvents(days[i])}]

(***************************************************************************)
(* CalendarContainer.                                                      *)
(***************************************************************************)
\* the three sample events shown when the events prop is empty
sampleEvents(evs) ==
    IF Len(evs) > 0 THEN evs
    ELSE ContainerEvents(<<DateValue(addDays(now, 1)), DateValue(now),
                           DateValue(addDays(now, 0 - 1))>>)

\* a week taken to start on Monday
getViewRangeMondayStart(v, date) ==
    CASE v = "month" -> [start |-> startOfMonth(date), end |-> endOfMonth(date)]
      [] v = "week"  ->
           LET weekStart == addDays(date, 1 - getDay(date))
           IN  [start |-> weekStart, end |-> addDays(weekStart, 6)]
      [] v = "day"   -> [start |-> date, end |-> date]
      [] OTHER       -> [start |-> startOfMonth(date), end |-> endOfMonth(date)]

getViewRange(v, date) ==
    CASE v = "month" -> [start |-> startOfMonth(date), end |-> endOfMonth(date)]
      [] v = "week"  ->
           LET weekStart == addDays(date, 0 - getDay(date))
           IN  [start |-> weekStart, end |-> addDays(weekStart, 6)]
      [] v = "day"   -> [start |-> date, end |-> date]
      [] OTHER       -> [start |-> startOfMonth(date), end |-> endOfMonth(date)]

\* an uncaught exception in a child's render unmounts the whole tree
Mounted == ~sidebar.threw

\* the render of the container after a state change: the Sidebar's mini
\* calendar on (currentDate, sampleEvents) and the view range
renderContainer(v, date) ==
    /\ sidebar' = renderMiniCalendar(date, sampleEvents(events))
    /\ viewRange' = getViewRange(v, date)

setCurrentDate(date) ==
    /\ Mounted
    /\ InRange(date)
    /\ currentDate' = date
    /\ renderContainer(currentView, date)
    /\ UNCHANGED <<now, offset, panelVars, events, currentView, viewsVars>>

\* a step back of one month whatever the view
previousDateAlwaysMonth(v, date) == subMonths(date, 1)

\* the date handlePrevious sets
previousDate(v, date) ==
    CASE v = "month" -> subMonths(date, 1)
      [] v = "week"  -> addDays(date, 0 - 7)
      [] v = "day"   -> addDays(date, 0 - 1)
      [] OTHER       -> subMonths(date, 1)

\* a step forward of a week under the list view
nextDateListByWeek(v, date) ==
    CASE v = "month" -> addMonths(date, 1)
      [] v = "week"  -> addDays(date, 7)
      [] v = "day"   -> addDays(date, 1)
      [] OTHER       -> addDays(date, 7)

\* the date handleNext sets
nextDate(v, date) ==
    CASE v = "month" -> addMonths(date, 1)
      [] v = "week"  -> addDays(date, 7)
      [] v = "day"   -> addDays(date, 1)
      [] OTHER       -> addMonths(date, 1)

handlePrevious == setCurrentDate(previousDate(currentView, currentDate))

handleNext == setCurrentDate(nextDate(currentView, currentDate))

(***************************************************************************)
(* The detail dialog and the importer of CalendarContainer.                *)
(***************************************************************************)
\* no event: selectedEvent = null, and the state of an unmounted dialog
Null == [id |-> 0, status |-> "none"]

\* values of the dialog's status select
StatusOptions == {"PENDING", "DELIVERED"}

\* the events that can be clicked: those of the Sidebar and the views
ClickableEvents ==
    {[id |-> sampleEvents(events)[i].id, status |-> "IN_TRANSIT"] :
        i \in 1..Len(sampleEvents(events))}

\* {selectedEvent && <EventDetailDialog .../>}
DialogMounted == selectedEvent # Null

\* useState(currentEvent): the initial value is taken at the mount only; a
\* mounted dialog keeps its editedEvent when the event prop changes
editedAfterClick(mounted, edited, event) ==
    IF mounted THEN edited ELSE event

\* handleEventClick: setSelectedEvent(event)
handleEventClick ==
    \E event \in ClickableEvents :
        /\ Mounted
        /\ selectedEvent' = event
        /\ editedEvent' = editedAfterClick(DialogMounted, editedEvent, event)
        /\ UNCHANGED <<isEditing, updated, now, offset, viewsVars,
                       containerVars, importerVars>>

\* the dialog's Edit button: setIsEditing(true)
dialogEdit ==
    /\ DialogMounted
    /\ ~isEditing
    /\ isEditing' = TRUE
    /\ UNCHANGED <<selectedEvent, editedEvent, updated, now, offset,
                   viewsVars, containerVars, importerVars>>

\* handleStatusChange, of the select shown while editing
handleStatusChange ==
    /\ DialogMounted
    /\ isEditing
    /\ \E value \in StatusOptions :
           editedEvent' = [editedEvent EXCEPT !.status = value]
    /\ UNCHANGED <<selectedEvent, isEditing, updated, now, offset,
                   viewsVars, containerVars, importerVars>>

\* handleSave: onSave(editedEvent), which is the container's
\* handleEventUpdate: onEventUpdate(updatedEvent); setSelectedEvent(null)
dialogHandleSave ==
    /\ DialogMounted
    /\ isEditing
    /\ updated' = editedEvent
    /\ selectedEvent' = Null
    /\ editedEvent' = Null
    /\ isEditing' = FALSE
    /\ UNCHANGED <<now, offset, viewsVars, containerVars, importerVars>>

\* handleCancel: setEditedEvent(currentEvent); setIsEditing(false)
dialogHandleCancel ==
    /\ DialogMounted
    /\ isEditing
    /\ editedEvent' = selectedEvent
    /\ isEditing' = FALSE
    /\ UNCHANGED <<selectedEvent, updated, now, offset, viewsVars,
                   containerVars, importerVars>>

\* onClose: setSelectedEvent(null)
dialogOnClose ==
    /\ DialogMounted
    /\ selectedEvent' = Null
    /\ editedEvent' = Null
    /\ isEditing' = FALSE
    /\ UNCHANGED <<updated, now, offset, viewsVars, containerVars,
                   importerVars>>

\* the most calls of onImport made
MaxCalls == 2

\* texts typed into the importer's fields
FieldTexts == {"", "feed"}

\* the Sidebar's onImportICal: setIsImporterOpen(true)
onImportICal ==
    /\ Mounted
    /\ isImporterOpen' = TRUE
    /\ UNCHANGED <<importerTab, url, icalText, calls, now, offset,
                   viewsVars, containerVars, dialogVars>>

\* the importer's tabs: setActiveTab
setImporterTab ==
    /\ Mounted
    /\ \E tab \in {"url", "text"} : importerTab' = tab
    /\ UNCHANGED <<isImporterOpen, url, icalText, calls, now, offset,
                   viewsVars, containerVars, dialogVars>>

setUrl ==
    /\ Mounted
    /\ \E text \in FieldTexts : url' = text
    /\ UNCHANGED <<isImporterOpen, importerTab, icalText, calls, now, offset,
                   viewsVars, containerVars, dialogVars>>

setIcalText ==
    /\ Mounted
    /\ \E text \in FieldTexts : icalText' = text
    /\ UNCHANGED <<isImporterOpen, importerTab, url, calls, now, offset,
                   viewsVars, containerVars, dialogVars>>

\* the container's handleImport up to its await: the call of the external
\* onImport is made, isImporterOpen is not set
openAfterCall(open) == open

\* the importer's handleImport: onImport("url", url) or onImport("text",
\* icalText), the container's handleImport, whose promise is not awaited here
importerHandleImport ==
    /\ Mounted
    /\ Len(calls) < MaxCalls
    /\ \/ importerTab = "url" /\ url # ""
       \/ importerTab = "text" /\ icalText # ""
    /\ calls' = Append(calls, [source |-> importerTab, state |-> "pending"])
    /\ isImporterOpen' = openAfterCall(isImporterOpen)
    /\ UNCHANGED <<importerTab, url, icalText, now, offset, viewsVars,
                   containerVars, dialogVars>>

\* a panel closed whatever the outcome of the call
openAfterSettleAlways(open, outcome) == FALSE

\* the container's handleImport after its await: setIsImporterOpen(false) if
\* the promise is fulfilled; a rejection leaves the function at the await
openAfterSettle(open, outcome) ==
    IF outcome = "fulfilled" THEN FALSE ELSE open

\* the external onImport of call i settles
importSettles ==
    \E i \in 1..Len(calls) : \E outcome \in {"fulfilled", "rejected"} :
        /\ calls[i].state = "pending"
        /\ calls' = [calls EXCEPT ![i].state = outcome]
        /\ isImporterOpen' = openAfterSettle(isImporterOpen, outcome)
        /\ UNCHANGED <<importerTab, url, icalText, now, offset, viewsVars,
                       containerVars, dialogVars>>

\* the panels of a container just constructed
InitPanels ==
    /\ selectedEvent = Null
    /\ editedEvent = Null
    /\ isEditing = FALSE
    /\ updated = Null
    /\ isImporterOpen = FALSE
    /\ importerTab = "url"
    /\ url = ""
    /\ icalText = ""
    /\ calls = <<>>

\* today taken for the first day of the current month
handleTodayMonthStart == setCurrentDate(startOfMonth(now))

handleToday == setCurrentDate(now)

\* a click on a day of the Sidebar's mini calendar
onDateSelect ==
    \E i \in 1..Len(sidebar.days) : setCurrentDate(sidebar.days[i])

\* a List tab whose value is not a view of the container
setCurrentViewAgenda(v) ==
    /\ Mounted
    /\ currentView' = (IF v = "list" THEN "agenda" ELSE v)
    /\ renderContainer(currentView', currentDate)
    /\ UNCHANGED <<now, offset, panelVars, events, currentDate, viewsVars>>

\* a change of view that also goes back to the construction date
setCurrentViewResetsDate(v) ==
    /\ Mounted
    /\ currentView' = v
    /\ currentDate' = now
    /\ renderContainer(v, now)
    /\ UNCHANGED <<now, offset, panelVars, events, viewsVars>>

\* Tabs onValueChange
setCurrentView(v) ==
    /\ Mounted
    /\ currentView' = v
    /\ renderContainer(v, currentDate)
    /\ UNCHANGED <<now, offset, panelVars, events, currentDate, viewsVars>>

(***************************************************************************)
(* Specifications.                                                         *)
(***************************************************************************)
\* the instants CalendarContainer is constructed at
ContainerNows == {MakeTime(2024, 0, 31, 10)}

\* the instants CalendarViews is constructed at
ViewsNows == {d * 24 + 10 : d \in Days}

\* a container whose first view is the week
InitOnWeek ==
    /\ now \in ContainerNows
    /\ offset = 0
    /\ InitPanels
    /\ events \in {ContainerEvents(l) : l \in Lists(ContainerTimestamps, MaxEvents)}
    /\ currentDate = now
    /\ currentView = "week"
    /\ viewRange = getViewRange("week", now)
    /\ sidebar = renderMiniCalendar(now, sampleEvents(events))
    /\ vEvents = sampleEvents(events)
    /\ vDate = now
    /\ activeView = "month"
    /\ view = IF sidebar.threw THEN NoOutput
              ELSE renderCalendarViews("month", now, vEvents)

\* CalendarContainer constructed with an events prop; it mounts the Sidebar
\* and CalendarViews, which gets the container's sampleEvents
Init ==
    /\ now \in ContainerNows
    /\ offset = 0
    /\ InitPanels
    /\ events \in {ContainerEvents(l) : l \in Lists(ContainerTimestamps, MaxEvents)}
    /\ currentDate = now
    /\ currentView = "month"
    /\ viewRange = getViewRange("month", now)
    /\ sidebar = renderMiniCalendar(now, sampleEvents(events))
    /\ vEvents = sampleEvents(events)
    /\ vDate = now
    /\ activeView = "month"
    /\ view = IF sidebar.threw THEN NoOutput
              ELSE renderCalendarViews("month", now, vEvents)

Next ==
    \/ handlePrevious
    \/ handleNext
    \/ handleToday
    \/ onDateSelect
    \/ \E v \in Views : setCurrentView(v)

Spec == Init /\ [][Next]_vars

\* CalendarViews constructed on its own with an events prop
InitViews ==
    /\ now \in ViewsNows
    /\ offset = 0
    /\ InitPanels
    /\ vEvents \in {ViewsEvents(l) : l \in Lists(ViewsTimestamps, MaxEvents)}
    /\ vDate = now
    /\ activeView = "month"
    /\ view = renderCalendarViews("month", now, vEvents)
    /\ events = <<>>
    /\ currentDate = now
    /\ currentView = "month"
    /\ viewRange = getViewRange("month", now)
    /\ sidebar = renderMiniCalendar(now, sampleEvents(events))

NextViews ==
    \/ goToPreviousMonth
    \/ goToNextMonth
    \/ goToToday
    \/ \E v \in Views : setActiveView(v)
    \/ monthCellClick
    \/ weekCellClick
    \/ dayCellClick

SpecViews == InitViews /\ [][NextViews]_vars

\* timestamps of one calendar day, a Date and a string
CellTimestamps ==
    { DateValue(MakeTime(2024, 1, 29, 23)),
      StringValue(IsoText(2024, 2, 29, 14)) }

CellNows == {MakeTime(2024, 1, 15, 10)}

\* CalendarViews constructed with events that all fall on one day
InitCells ==
    /\ now \in CellNows
    /\ offset = 0
    /\ InitPanels
    /\ vEvents \in {ViewsEvents(l) : l \in Lists(CellTimestamps, MaxCellEvents)}
    /\ vDate = now
    /\ activeView = "month"
    /\ view = renderCalendarViews("month", now, vEvents)
    /\ events = <<>>
    /\ currentDate = now
    /\ currentView = "month"
    /\ viewRange = getViewRange("month", now)
    /\ sidebar = renderMiniCalendar(now, sampleEvents(events))

SpecCells == InitCells /\ [][NextViews]_vars

\* timezone offsets of the host, in hours east of UTC
TimezoneOffsets == {0 - 5, 0, 9}

\* the day before the leap day of an event, and the leap day
ZoneNows == {MakeTime(2024, 1, 28, 10), MakeTime(2024, 1, 29, 10)}

\* CalendarViews constructed on a host in any of the timezones
InitZones ==
    /\ now \in ZoneNows
    /\ offset \in TimezoneOffsets
    /\ InitPanels
    /\ vEvents \in {ViewsEvents(l) : l \in Lists(ViewsTimestamps, MaxEvents)}
    /\ vDate = now
    /\ activeView = "month"
    /\ view = renderCalendarViews("month", now, vEvents)
    /\ events = <<>>
    /\ currentDate = now
    /\ currentView = "month"
    /\ viewRange = getViewRange("month", now)
    /\ sidebar = renderMiniCalendar(now, sampleEvents(events))

SpecZones == InitZones /\ [][NextViews]_vars

NextDialog ==
    \/ handleEventClick
    \/ dialogEdit
    \/ handleStatusChange
    \/ dialogHandleSave
    \/ dialogHandleCancel
    \/ dialogOnClose

\* the container with its detail dialog
SpecDialog == Init /\ [][NextDialog]_vars

NextImporter ==
    \/ onImportICal
    \/ setImporterTab
    \/ setUrl
    \/ setIcalText
    \/ importerHandleImport
    \/ importSettles

\* the container with its importer
SpecImporter == Init /\ [][NextImporter]_vars

\* a tab value that is none of the four views
OtherView == "year"

AnyViews == Views \cup {OtherView}

\* the container and the CalendarViews it mounts, their tabs handing over
\* any value
NextAnyView ==
    \/ \E v \in AnyViews : setCurrentView(v)
    \/ handlePrevious
    \/ handleNext
    \/ Mounted /\ \E v \in AnyViews : setActiveView(v)

SpecAnyView == Init /\ [][NextAnyView]_vars

(***************************************************************************)
(* Properties.                                                             *)
(***************************************************************************)
\* the event's timestamp converts to a valid instant
IsValid(e) == ~isNaN(toDate(e.date))

\* the number of events in all buckets of a mapping
RECURSIVE Placed(_)
Placed(buckets) ==
    IF DOMAIN buckets = {} THEN 0
    ELSE LET k == CHOOSE x \in DOMAIN buckets : TRUE
         IN  Len(buckets[k]) +
             Placed([x \in DOMAIN buckets \ {k} |-> buckets[x]])

\* the places (bucket key, index) an event occupies in a mapping
Places(buckets, e) ==
    {<<k, j>> \in UNION {{k} \X (1..Len(buckets[k])) : k \in DOMAIN buckets} :
        buckets[k][j] = e}

\* the number of calendar days of a window
DayCount(range) == DayOf(range.end) - DayOf(range.start) + 1

\* C1: in every view of CalendarViews, the number of events placed in buckets
\* plus the number of events reported invalid equals the number of events the
\* view was given.
C1_EveryEventCounted ==
    Placed(view.buckets) + Len(view.warned) = Len(displayEvents(vEvents))

\* C2: in every view of CalendarViews and for every focus date, each event
\* with a valid timestamp occupies exactly one place of exactly one bucket.
C2_ExactlyOneBucket ==
    \A i \in 1..Len(displayEvents(vEvents)) :
        LET e == displayEvents(vEvents)[i]
        IN  IsValid(e) => Cardinality(Places(view.buckets, e)) = 1

\* C3: an event with an unparsable timestamp never aborts a render: the
\* Sidebar's mini calendar renders, and marks exactly the days of its month
\* that carry an event with a valid timestamp.
C3_BadEventNeverAborts ==
    LET evs == sampleEvents(events)
        valid == {toDate(evs[i].startDate) : i \in 1..Len(evs)} \ {NaN}
    IN  /\ ~sidebar.threw
        /\ Len(sidebar.days) > 0
        /\ \A i \in 1..Len(sidebar.days) :
               i \in sidebar.marked <=>
                   \E t \in valid : DayOf(t) = DayOf(sidebar.days[i])

\* C4: under Month, the window the container reports has a day count that is
\* a positive multiple of 7 and contains the first and the last day of the
\* focus date's month.
C4_MonthWindowWholeWeeks ==
    currentView = "month" =>
        /\ DayCount(viewRange) > 0
        /\ DayCount(viewRange) % 7 = 0
        /\ DayOf(viewRange.start) <= DayOf(startOfMonth(currentDate))
        /\ DayOf(viewRange.end) >= DayOf(endOfMonth(currentDate))

\* a window with both bounds, as opposed to a marker for "no bounds"
IsBoundedWindow(range) == {"start", "end"} \subseteq DOMAIN range

\* the day number of a day key YYYY-MM-DD
KeyDay(key) ==
    DaysFromCivil(Num2(key, 1) * 100 + Num2(key, 3), Num2(key, 6), Num2(key, 9))

\* the number of days of the month after t's
DaysInNextMonth(t) == getDate(endOfMonth(MakeTime(getFullYear(t), getMonth(t) + 1, 1, 0)))

\* C5: under Week, for every focus date, the window runs from the start of
\* the focus date's week to six days later: seven days, the first a Sunday,
\* the focus date among them; this holds for the range the container reports
\* and for the day columns of the week view.
C5_WeekWindow ==
    currentView = "week" =>
        LET weekStart == DayOf(startOfWeek(currentDate))
            days      == renderWeekView(currentDate, vEvents).days
        IN  /\ DayOf(viewRange.start) = weekStart
            /\ DayOf(viewRange.end) = weekStart + 6
            /\ DayCount(viewRange) = 7
            /\ getDay(viewRange.start) = 0
            /\ DayOf(viewRange.start) <= DayOf(currentDate)
            /\ DayOf(currentDate) <= DayOf(viewRange.end)
            /\ Len(days) = 7
            /\ \A i \in 1..7 : DayOf(days[i]) = weekStart + i - 1

\* a week window that spans two months, for a focus date on its last day
C5_Witness ==
    /\ currentView = "week"
    /\ getDay(currentDate) = 6
    /\ getMonth(viewRange.start) # getMonth(viewRange.end)

\* C6: under the agenda (list) view the range the container reports is not a
\* bounded window but a marker for "no bounds".
C6_AgendaUnbounded ==
    currentView = "list" => ~IsBoundedWindow(viewRange)

\* the agenda of CalendarViews places every event with a valid timestamp,
\* whatever the focus date
AgendaHasEveryValidEvent ==
    activeView = "list" =>
        \A i \in 1..Len(displayEvents(vEvents)) :
            LET e == displayEvents(vEvents)[i]
            IN  IsValid(e) => Cardinality(Places(view.buckets, e)) = 1

\* C7: the agenda's day keys come out in ascending order of their text, none
\* twice, all keys of the buckets among them, and that order is the order of
\* the days in time.
C7_AgendaKeysAscending ==
    activeView = "list" =>
        LET keys == view.sortedDates
        IN  /\ {keys[i] : i \in 1..Len(keys)} = DOMAIN view.buckets
            /\ \A i \in 1..Len(keys) : \A j \in 1..Len(keys) :
                   i < j => /\ StringLess(keys[i], keys[j])
                            /\ KeyDay(keys[i]) < KeyDay(keys[j])

\* an agenda of two days whose events were given latest first
C7_Witness ==
    /\ activeView = "list"
    /\ Len(vEvents) = 2
    /\ Len(view.sortedDates) = 2
    /\ IsValid(vEvents[1]) /\ IsValid(vEvents[2])
    /\ DayOf(toDate(vEvents[1].date)) > DayOf(toDate(vEvents[2].date))

\* C8: the previous and next buttons of CalendarViews' header move the focus
\* date by one unit of the view shown: seven days under week, one day under
\* day.
C8_StepIsOneUnit ==
    [][ /\ goToNextMonth =>
              /\ activeView = "week" => vDate' = addDays(vDate, 7)
              /\ activeView = "day" => vDate' = addDays(vDate, 1)
        /\ goToPreviousMonth =>
              /\ activeView = "week" => vDate' = addDays(vDate, 0 - 7)
              /\ activeView = "day" => vDate' = addDays(vDate, 0 - 1) ]_vars

\* C9: under week or day, the date handlePrevious would set after a
\* handleNext is the date before it, and the date handleNext would set after
\* a handlePrevious is the date before it.
C9_WeekDayRoundTrip ==
    [][ /\ (handleNext /\ currentView \in {"week", "day"}) =>
               previousDate(currentView', currentDate') = currentDate
        /\ (handlePrevious /\ currentView \in {"week", "day"}) =>
               nextDate(currentView', currentDate') = currentDate ]_vars

\* the week view one step after the construction date, in another month
C9_Witness ==
    /\ currentView = "week"
    /\ currentDate = addDays(now, 7)
    /\ getMonth(currentDate) # getMonth(now)

\* C10: under month, from a date whose day of month exists in the following
\* month, the date a step back sets after a step forward is the date before
\* the two steps, with the container's handlers and with CalendarViews'
\* header buttons.
C10_MonthRoundTrip ==
    [][ (/\ handleNext
         /\ currentView = "month"
         /\ getDate(currentDate) <= DaysInNextMonth(currentDate)) =>
            /\ previousDate(currentView', currentDate') = currentDate
            /\ previousMonthDate(nextMonthDate(currentDate)) = currentDate ]_vars

\* the month view on the 15th of the month after construction, at the hour
\* of construction
C10_Witness ==
    /\ currentView = "month"
    /\ getDate(currentDate) = 15
    /\ getHours(currentDate) = getHours(now)
    /\ getMonth(currentDate) = (getMonth(now) + 1) % 12

\* C11: the view and the focus date the displayed view computes its buckets
\* from are the ones the container's transitions last produced.
C11_ViewReadsViewState ==
    Mounted => /\ activeView = currentView
               /\ vDate = currentDate
               /\ view = renderCalendarViews(currentView, currentDate, vEvents)

\* C12: with an empty list of events nothing is placed in a bucket and
\* nothing is reported invalid, in every view, and the month, week and day
\* views have their day cells.
C12_EmptyInputEmptyOutput ==
    Len(vEvents) = 0 =>
        /\ DOMAIN view.buckets = {}
        /\ Len(view.warned) = 0
        /\ activeView \in {"month", "week"} => Len(view.days) > 0

\* C13: a change of view by the container's tabs sets the view to the tab's
\* value and leaves the focus date as it was, from every state.
C13_SetViewKeepsDate ==
    [][ \A v \in Views :
            setCurrentView(v) => /\ currentView' = v
                                 /\ currentDate' = currentDate ]_vars

\* a view other than the first, on a date other than the construction date
C13_Witness ==
    /\ currentView = "list"
    /\ currentDate # now
    /\ viewRange = getViewRange("list", currentDate)

\* C14: selecting a date sets the focus date to it and leaves the view as it
\* is, for every control that selects one: a day of the Sidebar's mini
\* calendar, a day cell of the month grid, an hour cell of the week and day
\* views.
C14_SelectSetsDate ==
    /\ activeView = "month" =>
           \A i \in 1..Len(view.days) :
               ENABLED (/\ viewsOnDateSelect(view.days[i])
                        /\ vDate' = view.days[i]
                        /\ activeView' = activeView)
    /\ activeView = "week" =>
           \A i \in 1..Len(view.days) : \A hour \in ClickHours :
               ENABLED (/\ viewsOnDateSelect(setHours(view.days[i], hour))
                        /\ vDate' = setHours(view.days[i], hour)
                        /\ activeView' = activeView)
    /\ activeView = "day" =>
           \A hour \in ClickHours :
               ENABLED (/\ viewsOnDateSelect(setHours(vDate, hour))
                        /\ vDate' = setHours(vDate, hour)
                        /\ activeView' = activeView)

\* the Sidebar's way of selecting a date: a click on a day of the mini
\* calendar sets the container's date to that day and leaves its view
SidebarSelectSetsDate ==
    [][ \A i \in 1..Len(sidebar.days) :
            setCurrentDate(sidebar.days[i]) =>
                /\ currentDate' = sidebar.days[i]
                /\ currentView' = currentView ]_vars

\* C15: the Today button sets the focus date to the current calendar day and
\* leaves the view as it is, from every state.
C15_TodaySetsToday ==
    [][ handleToday => /\ DayOf(currentDate') = DayOf(now)
                       /\ currentView' = currentView ]_vars

\* the week view on the current day, with the week's range
C15_Witness ==
    /\ currentView = "week"
    /\ currentDate = now
    /\ viewRange = getViewRange("week", now)

\* C17: under the list (agenda) view, previous and next set the date they
\* set under the month view from the same focus date.
C17_AgendaStepsLikeMonth ==
    [][ /\ (handleNext /\ currentView = "list") =>
               currentDate' = nextDate("month", currentDate)
        /\ (handlePrevious /\ currentView = "list") =>
               currentDate' = previousDate("month", currentDate) ]_vars

\* the list view one month after the construction date, the day clamped to
\* the shorter month
C17_Witness ==
    /\ currentView = "list"
    /\ currentDate = addMonths(now, 1)
    /\ getDate(currentDate) < getDate(now)

\* C16: at construction the container's view is the month and its focus date
\* is on the current day, and so are the view and the date of the
\* CalendarViews it mounts; the construction instant is the same throughout.
C16_InitialViewState ==
    /\ currentView = "month"
    /\ DayOf(currentDate) = DayOf(now)
    /\ activeView = "month"
    /\ DayOf(vDate) = DayOf(now)
    /\ [][now' = now]_vars

\* the container as constructed without events
C16_Witness ==
    /\ Len(events) = 0
    /\ currentView = "month"
    /\ currentDate = now
    /\ viewRange = getViewRange("month", now)
    /\ activeView = "month"
    /\ vDate = now

\* C18: with a view value that is none of month, week, day and list, the
\* range, the dates previous and next set, and the rendered view are those
\* of the month view.
C18_OtherViewIsMonth ==
    /\ currentView \notin Views =>
           /\ viewRange = getViewRange("month", currentDate)
           /\ nextDate(currentView, currentDate) = nextDate("month", currentDate)
           /\ previousDate(currentView, currentDate) =
                  previousDate("month", currentDate)
    /\ activeView \notin Views =>
           view = renderCalendarViews("month", vDate, vEvents)

\* the container's part of C18: range and navigation default to the month's
OtherViewContainerIsMonth ==
    currentView \notin Views =>
        /\ viewRange = getViewRange("month", currentDate)
        /\ nextDate(currentView, currentDate) = nextDate("month", currentDate)
        /\ previousDate(currentView, currentDate) =
               previousDate("month", currentDate)

\* C19: in every bucket of every view the events are in the order of the
\* input list (an event's id is its position in the input).
C19_BucketKeepsInputOrder ==
    \A k \in DOMAIN view.buckets :
        \A i \in 1..Len(view.buckets[k]) : \A j \in 1..Len(view.buckets[k]) :
            i < j => view.buckets[k][i].id < view.buckets[k][j].id

\* a day bucket of the month view that holds two events of different hours
C19_Witness ==
    /\ activeView = "month"
    /\ \E k \in DOMAIN view.buckets :
           /\ Len(view.buckets[k]) = 2
           /\ toDate(view.buckets[k][1].date) # toDate(view.buckets[k][2].date)

\* two events are in one bucket of a mapping
ShareBucket(buckets, a, b) ==
    \E k \in DOMAIN buckets :
        /\ \E i \in 1..Len(buckets[k]) : buckets[k][i] = a
        /\ \E j \in 1..Len(buckets[k]) : buckets[k][j] = b

\* the instants of two events are in the same hour of the same day
SameDayHour(a, b) ==
    /\ DayOf(toDate(a.date)) = DayOf(toDate(b.date))
    /\ getHours(toDate(a.date)) = getHours(toDate(b.date))

\* C20: in the week and day views, two events with valid timestamps (the
\* same event taken twice included) are in one bucket exactly when their
\* instants are in the same hour of the same calendar day.
C20_KeyIsDayHour ==
    activeView \in {"week", "day"} =>
        \A i \in 1..Len(displayEvents(vEvents)) :
            \A j \in 1..Len(displayEvents(vEvents)) :
                LET a == displayEvents(vEvents)[i]
                    b == displayEvents(vEvents)[j]
                IN  (IsValid(a) /\ IsValid(b)) =>
                        (ShareBucket(view.buckets, a, b) <=> SameDayHour(a, b))

\* the week view's part of C20, with the key spelled out: a valid event is
\* in the bucket of its day key and hour, and shares it exactly with the
\* events of that day and hour
WeekKeyIsDayHour ==
    activeView = "week" =>
        \A i \in 1..Len(displayEvents(vEvents)) :
            \A j \in 1..Len(displayEvents(vEvents)) :
                LET a == displayEvents(vEvents)[i]
                    b == displayEvents(vEvents)[j]
                IN  (IsValid(a) /\ IsValid(b)) =>
                        /\ Places(view.buckets, a) \subseteq
                               {<<format(toDate(a.date)),
                                  getHours(toDate(a.date))>>} \X (1..Len(vEvents) + 3)
                        /\ ShareBucket(view.buckets, a, b) <=> SameDayHour(a, b)

\* t is the instant of a calendar day and an hour of it
IsCalendarInstant(t) ==
    /\ ~isNaN(t)
    /\ MakeTime(getFullYear(t), getMonth(t), getDate(t), getHours(t)) = t

\* C21: after any sequence of the container's transitions the view is one of
\* the four views and the focus date is a valid calendar day, every date a
\* next transition would set is valid too, and no transition makes the
\* render fail.
C21_StateFullyFormed ==
    /\ currentView \in Views
    /\ IsCalendarInstant(currentDate)
    /\ Mounted =>
           /\ \A v \in Views : /\ IsCalendarInstant(nextDate(v, currentDate))
                               /\ IsCalendarInstant(previousDate(v, currentDate))
           /\ IsCalendarInstant(now)
           /\ \A i \in 1..Len(sidebar.days) : IsCalendarInstant(sidebar.days[i])
    /\ ~Mounted => (currentView = "month" /\ currentDate = now)

\* the list view on a leap day reached by a clamped month step
C21_Witness ==
    /\ currentView = "list"
    /\ getMonth(currentDate) = 1
    /\ getDate(currentDate) = 29
    /\ getHours(currentDate) = getHours(now)

CellEvents(i) ==
    IF format(view.days[i]) \in DOMAIN view.buckets
    THEN view.buckets[format(view.days[i])]
    ELSE <<>>

\* the cell shows the first min(3, n) of the n events, in order, and "+K more"
\* with K = n - 3 exactly when n > 3
CellShowsFirstThree(cell, dayEvents) ==
    LET n == Len(dayEvents)
    IN  /\ Len(cell.shown) = (IF n < 3 THEN n ELSE 3)
        /\ \A j \in 1..Len(cell.shown) : cell.shown[j] = dayEvents[j]
        /\ cell.hasMore <=> n > 3
        /\ cell.hasMore => cell.more = n - 3
        /\ Len(cell.shown) + (IF cell.hasMore THEN cell.more ELSE 0) = n

\* C23: in the month grid a day cell shows the first min(3, n) events of its
\* bucket in bucket order and, when n > 3, a "+K more" line with K = n - 3, so
\* that the shown events plus K is n.
C23_CellShowsThreeAndMore ==
    activeView = "month" =>
        /\ Len(view.cells) = Len(view.days)
        /\ \A i \in 1..Len(view.cells) :
               CellShowsFirstThree(view.cells[i], CellEvents(i))

C23_Witness ==
    /\ activeView = "month"
    /\ \E i \in 1..Len(view.cells) :
           /\ Len(CellEvents(i)) = 5
           /\ view.cells[i].hasMore
           /\ view.cells[i].more = 2

\* on one focus date the container's week start, addDays(date, -getDay()), and
\* the views' startOfWeek(date) are the same calendar day
WeekStartsAgree ==
    \A date \in {currentDate, vDate} :
        DayOf(addDays(date, 0 - getDay(date))) = DayOf(startOfWeek(date))

\* C24: the week of the header range, from the container's week start, and the
\* week columns rendered by the views, from startOfWeek, are the same 7 days.
C24_HeaderWeekIsRenderedWeek ==
    (Mounted /\ currentView = "week" /\ activeView = "week") =>
        /\ Len(view.days) = 7
        /\ \A i \in 1..7 :
               DayOf(view.days[i]) = DayOf(addDays(viewRange.start, i - 1))
        /\ DayOf(viewRange.end) = DayOf(view.days[7])

\* the calendar month of an instant, counted in months
MonthIndex(t) == getFullYear(t) * 12 + getMonth(t)

\* a month step of the container lands in the adjacent calendar month
ContainerMonthStepAdjacent ==
    [][ /\ (handleNext /\ currentView \in {"month", "list"}) =>
               MonthIndex(currentDate') = MonthIndex(currentDate) + 1
        /\ (handlePrevious /\ currentView \in {"month", "list"}) =>
               MonthIndex(currentDate') = MonthIndex(currentDate) - 1 ]_vars

\* C25: a month step lands in the adjacent calendar month, never skipping a
\* month, in the header of CalendarViews as in the container.
C25_MonthStepAdjacent ==
    [][ /\ goToNextMonth => MonthIndex(vDate') = MonthIndex(vDate) + 1
        /\ goToPreviousMonth => MonthIndex(vDate') = MonthIndex(vDate) - 1
        /\ (handleNext /\ currentView \in {"month", "list"}) =>
               MonthIndex(currentDate') = MonthIndex(currentDate) + 1
        /\ (handlePrevious /\ currentView \in {"month", "list"}) =>
               MonthIndex(currentDate') = MonthIndex(currentDate) - 1 ]_vars

\* the event is in the bucket of the day of the instant t
InDayBucket(e, t) ==
    /\ format(t) \in DOMAIN view.buckets
    /\ \E j \in 1..Len(view.buckets[format(t)]) : view.buckets[format(t)][j] = e

\* C26: an event of the container whose timestamp is valid is placed by the
\* month view in the bucket of the calendar day of that timestamp, and is not
\* reported invalid.
C26_ContainerEventBucketed ==
    (Mounted /\ activeView = "month") =>
        \A i \in 1..Len(vEvents) :
            ~isNaN(toDate(vEvents[i].startDate)) =>
                /\ InDayBucket(vEvents[i], toDate(vEvents[i].startDate))
                /\ \A j \in 1..Len(view.warned) : view.warned[j] # vEvents[i]

\* the cells of the month grid flagged as of the current month
CurrentMonthCells == {i \in 1..Len(view.days) : view.isCurrentMonth[i]}

\* a grid of n consecutive days from day d1 around the month first..last: at
\* most 6 days of padding on each side, and the flagged cells are the run of
\* the cells of the days first..last
MonthGridMinimal(first, last, d1, n) ==
    /\ first - d1 \in 0..6
    /\ (d1 + n - 1) - last \in 0..6
    /\ \A i \in 1..n : DayOf(view.days[i]) = d1 + i - 1
    /\ CurrentMonthCells = (first - d1 + 1)..(last - d1 + 1)

\* C27: the month grid starts at most 6 days before the first day of the focus
\* date's month and ends at most 6 days after its last day, and the cells
\* flagged as of the current month are exactly the days of that month, in one
\* contiguous run.
C27_MonthPaddingMinimal ==
    activeView = "month" =>
        /\ Len(view.days) > 0
        /\ MonthGridMinimal(DayOf(startOfMonth(vDate)), DayOf(endOfMonth(vDate)),
                            DayOf(view.days[1]), Len(view.days))

C27_Witness ==
    /\ activeView = "month"
    /\ vDate # now
    /\ Len(view.days) = 42
    /\ DayOf(startOfMonth(vDate)) - DayOf(view.days[1]) = 5
    /\ DayOf(view.days[42]) - DayOf(endOfMonth(vDate)) = 6
    /\ Cardinality(CurrentMonthCells) = 31

\* C28: in the agenda, the date of a group's header and its is-today flag are
\* those of the calendar day of the group's key: the header's date formats
\* back to the key, and the group is flagged today exactly when its key is
\* today's key, in every timezone offset.
C28_HeaderDayIsKeyDay ==
    activeView = "list" =>
        /\ Len(view.headers) = Len(view.sortedDates)
        /\ \A i \in 1..Len(view.headers) :
               /\ format(view.headers[i].date) = view.sortedDates[i]
               /\ view.headers[i].isToday <=> view.sortedDates[i] = format(now)

\* the same, for the hosts at or east of UTC
HeaderDayIsKeyDayEastOfUtc ==
    offset >= 0 => C28_HeaderDayIsKeyDay

\* C29: whenever the detail dialog calls onSave, the event it passes has the
\* id of the event selected in the container.
C29_SavedIsSelected ==
    [][ dialogHandleSave => updated'.id = selectedEvent.id ]_vars

\* a dialog opened from no selection starts on the clicked event, and a
\* cancel puts the selected event back
DialogStartsOnSelected ==
    [][ /\ (handleEventClick /\ ~DialogMounted) => editedEvent' = selectedEvent'
        /\ dialogHandleCancel => editedEvent' = selectedEvent ]_vars

\* call i of onImport goes from pending to the outcome in this step
Settles(i, outcome) ==
    calls[i].state = "pending" /\ calls'[i].state = outcome

\* C30: an import closes the importer only after its call of the external
\* onImport has completed successfully: making the call leaves
\* isImporterOpen as it is, so does a call that fails, and isImporterOpen
\* goes from true to false only in a step in which a call is fulfilled.
C30_ClosedOnlyAfterSuccess ==
    [][ /\ importerHandleImport => isImporterOpen' = isImporterOpen
        /\ \A i \in 1..Len(calls) :
               Settles(i, "rejected") => isImporterOpen' = isImporterOpen
        /\ (isImporterOpen /\ ~isImporterOpen') =>
               \E i \in 1..Len(calls) : Settles(i, "fulfilled") ]_vars

C30_Witness ==
    /\ isImporterOpen
    /\ \E i \in 1..Len(calls) : calls[i].state = "rejected"
    /\ \E i \in 1..Len(calls) : calls[i].state = "pending"

====
